---- MODULE Spec2Model ----
(***************************************************************************)
(* Model of graphql_client_codegen/src/codegen/selection.rs: the walk of a *)
(* resolved selection (calculate_selection) that fills the flat lists of   *)
(* an ExpandedSelection (types, fields, variants) and the rendering of     *)
(* those lists (ExpandedSelection::render).                                *)
(*                                                                         *)
(* Names are sequences of one-character strings, so that the case          *)
(* conversion of field names is computed and not assumed.  A SelectionId   *)
(* is the path of a selection in the selection tree (the sequence of       *)
(* positions from the root selection set).  A ResponseTypeId is the 0-based*)
(* index into the types list, as in the source.                            *)
(***************************************************************************)
EXTENDS Integers, Sequences, FiniteSets, TLC

\* Bound of the walk's inputs: the largest number of selections of a query.
MaxNodes == 3

\* Bounds of the inputs of render taken on its own.
MaxTypes == 2
MaxFields == 2
MaxVariants == 2

VARIABLES input, pc, stack, types, fields, variants, calls, panic, items

vars == <<input, pc, stack, types, fields, variants, calls, panic, items>>

---------------------------------------------------------------------------
\* Names.

N_ResponseData == <<"R","e","s","p","o","n","s","e","D","a","t","a">>
N_Query == <<"Q","u","e","r","y">>
N_User == <<"U","s","e","r">>
N_Cat == <<"C","a","t">>
N_Dog == <<"D","o","g">>
N_Animal == <<"A","n","i","m","a","l">>
N_Node == <<"N","o","d","e">>
N_ID == <<"I","D">>
N_String == <<"S","t","r","i","n","g">>
N_Role == <<"R","o","l","e">>
N_UserInput == <<"U","s","e","r","I","n","p","u","t">>
N_user == <<"u","s","e","r">>
N_pet == <<"p","e","t">>
N_id == <<"i","d">>
N_name == <<"n","a","m","e">>
N_type == <<"t","y","p","e">>
N_bestFriend == <<"b","e","s","t","F","r","i","e","n","d">>
N_filter == <<"f","i","l","t","e","r">>
N_bark == <<"b","a","r","k">>
N_Id == <<"I","d">>
N_NodeParts == <<"N","o","d","e","P","a","r","t","s">>
N_AnimalParts == <<"A","n","i","m","a","l","P","a","r","t","s">>
N_On == <<"O","n">>

UpperChars == <<"A","B","C","D","E","F","G","H","I","J","K","L","M",
                "N","O","P","Q","R","S","T","U","V","W","X","Y","Z">>
LowerChars == <<"a","b","c","d","e","f","g","h","i","j","k","l","m",
                "n","o","p","q","r","s","t","u","v","w","x","y","z">>

IsUpper(c) == \E k \in 1..Len(UpperChars) : UpperChars[k] = c
IsLower(c) == \E k \in 1..Len(LowerChars) : LowerChars[k] = c
ToLower(c) ==
    IF IsUpper(c)
    THEN LowerChars[CHOOSE k \in 1..Len(UpperChars) : UpperChars[k] = c]
    ELSE c

\* heck's word boundary before position i of s: after a separator, between
\* a lowercase and an uppercase letter, or before the last capital of a run
\* of capitals that a lowercase letter follows.  A name's leading
\* separators start no word.
BoundaryBefore(s, i) ==
    /\ \E j \in 1..(i - 1) : s[j] # "_"
    /\ \/ s[i - 1] = "_"
       \/ IsLower(s[i - 1]) /\ IsUpper(s[i])
       \/ /\ IsUpper(s[i - 1]) /\ IsUpper(s[i])
          /\ i < Len(s) /\ IsLower(s[i + 1])

RECURSIVE SnakeFrom(_, _)
SnakeFrom(s, i) ==
    IF i > Len(s) THEN <<>>
    ELSE IF s[i] = "_" THEN SnakeFrom(s, i + 1)
    ELSE (IF BoundaryBefore(s, i) THEN <<"_">> ELSE <<>>)
         \o <<ToLower(s[i])>> \o SnakeFrom(s, i + 1)

to_snake_case(s) == SnakeFrom(s, 1)

Keywords == {N_type, <<"f","n">>, <<"s","e","l","f">>, <<"m","a","t","c","h">>}

keyword_replace(s) == IF s \in Keywords THEN s \o <<"_">> ELSE s

---------------------------------------------------------------------------
\* Schema: type ids, their kinds, the members of interfaces and unions, and
\* the fields of the types.

TypeIds == {"Query", "User", "Cat", "Dog", "Animal", "Node",
            "ID", "String", "Role", "UserInput"}

Kind(t) ==
    CASE t \in {"Query", "User", "Cat", "Dog"} -> "Object"
      [] t = "Animal" -> "Union"
      [] t = "Node" -> "Interface"
      [] t \in {"ID", "String"} -> "Scalar"
      [] t = "Role" -> "Enum"
      [] t = "UserInput" -> "Input"

TypeName(t) ==
    CASE t = "Query" -> N_Query [] t = "User" -> N_User [] t = "Cat" -> N_Cat
      [] t = "Dog" -> N_Dog [] t = "Animal" -> N_Animal [] t = "Node" -> N_Node
      [] t = "ID" -> N_ID [] t = "String" -> N_String [] t = "Role" -> N_Role
      [] t = "UserInput" -> N_UserInput

\* interface.variants() / union.variants(): the implementing or member
\* types, in schema order.
Variants(t) ==
    CASE t = "Animal" -> <<"Cat", "Dog">>
      [] t = "Node" -> <<"User">>
      [] OTHER -> <<>>

IsAbstract(t) == Kind(t) \in {"Interface", "Union"}

SchemaField(n, t, q) == [name |-> n, type |-> t, quals |-> q]

NoField == SchemaField(<<>>, "", <<>>)

SchemaFields(t) ==
    CASE t = "Query" ->
           {SchemaField(N_user, "User", <<"Optional">>),
            SchemaField(N_pet, "Animal", <<"Optional">>),
            SchemaField(N_type, "Role", <<"Optional", "List", "Required">>)}
      [] t = "User" ->
           {SchemaField(N_id, "ID", <<"Required">>),
            SchemaField(N_name, "String", <<"Optional">>),
            SchemaField(N_bestFriend, "User", <<"Optional">>),
            SchemaField(N_filter, "UserInput", <<"Optional">>)}
      [] t = "Cat" -> {SchemaField(N_name, "String", <<"Optional">>)}
      [] t = "Dog" -> {SchemaField(N_bark, "String", <<"Required">>)}
      [] t = "Node" -> {SchemaField(N_id, "ID", <<"Required">>)}
      [] OTHER -> {}

\* The fragments of the document: a name and the type the fragment is on.
FragmentIds == {1, 2, 3}

Fragment(f) ==
    CASE f = 1 -> [name |-> N_Id, on |-> "User"]
      [] f = 2 -> [name |-> N_NodeParts, on |-> "Node"]
      [] f = 3 -> [name |-> N_AnimalParts, on |-> "Animal"]

---------------------------------------------------------------------------
\* The resolved query: selections as a tree.  A selection holds its kind
\* (the variants of the Selection enum), for a field its alias (<<>> when it
\* has none) and schema field, for an inline fragment the type it is on, for
\* a fragment spread the fragment id, and its subselection.

NoAlias == <<>>

FieldSel(alias, f, sub) ==
    [kind |-> "Field", alias |-> alias, field |-> f, on |-> "", frag |-> 0,
     sub |-> sub]
TypenameSel ==
    [kind |-> "Typename", alias |-> NoAlias, field |-> NoField, on |-> "",
     frag |-> 0, sub |-> <<>>]
InlineFragmentSel(t, sub) ==
    [kind |-> "InlineFragment", alias |-> NoAlias, field |-> NoField,
     on |-> t, frag |-> 0, sub |-> sub]
FragmentSpreadSel(f) ==
    [kind |-> "FragmentSpread", alias |-> NoAlias, field |-> NoField,
     on |-> "", frag |-> f, sub |-> <<>>]

Range(s) == {s[k] : k \in 1..Len(s)}

CompositeTypes == {t \in TypeIds : Kind(t) \in {"Object", "Interface", "Union"}}

PossibleTypes(t) == IF IsAbstract(t) THEN Range(Variants(t)) ELSE {t}

Overlap(t, u) == PossibleTypes(t) \cap PossibleTypes(u) # {}

\* The aliases the bounded queries give to a schema field.
InputAliases(f) ==
    IF f.name \in {N_name, N_type} THEN {NoAlias, N_Id} ELSE {NoAlias}

\* The selections, without their subselections, that a validated query can
\* hold in a selection set on type t.
Heads(t) ==
    {TypenameSel}
    \cup UNION {{FieldSel(a, f, <<>>) : a \in InputAliases(f)} : f \in SchemaFields(t)}
    \cup {InlineFragmentSel(u, <<>>) : u \in {v \in CompositeTypes : Overlap(t, v)}}
    \cup {FragmentSpreadSel(f) : f \in {g \in FragmentIds : Overlap(t, Fragment(g).on)}}

\* The type a selection's subselection is on; "" for a selection without one.
SubType(h) ==
    CASE h.kind = "Field" /\ h.field.type \in CompositeTypes -> h.field.type
      [] h.kind = "InlineFragment" -> h.on
      [] OTHER -> ""

\* The selection sets on type t of exactly n selections in all, nested
\* ones included; a selection with a subselection has a non-empty one.
RECURSIVE SelectionSets(_, _)
SelectionSets(t, n) ==
    IF n = 0 THEN {<<>>}
    ELSE UNION {
           UNION {
             {<<[h EXCEPT !.sub = s]>> \o rest :
                  s \in IF SubType(h) = ""
                        THEN (IF k = 1 THEN {<<>>} ELSE {})
                        ELSE (IF k = 1 THEN {} ELSE SelectionSets(SubType(h), k - 1)),
                  rest \in SelectionSets(t, n - k)}
             : h \in Heads(t)}
           : k \in 1..n}

\* What the two entry points are called with.
Operations ==
    {[entry |-> "operation", name |-> N_ResponseData, on |-> "Query",
      selection |-> s] :
        s \in UNION {SelectionSets("Query", n) : n \in 1..MaxNodes}}

\* The fragments spread somewhere in a selection set.
RECURSIVE SpreadsIn(_)
SpreadsIn(set) ==
    UNION {IF set[k].kind = "FragmentSpread" THEN {set[k].frag}
           ELSE SpreadsIn(set[k].sub) : k \in 1..Len(set)}

\* A fragment's selection does not spread the fragment itself.
Fragments ==
    UNION {{[entry |-> "fragment", name |-> Fragment(f).name,
             on |-> Fragment(f).on, selection |-> s] :
               s \in {x \in UNION {SelectionSets(Fragment(f).on, n) : n \in 1..MaxNodes} :
                        f \notin SpreadsIn(x)}}
           : f \in FragmentIds}

Inputs == Operations \cup Fragments

---------------------------------------------------------------------------
\* The lists of an ExpandedSelection and what the walk reads of the query.

ExpandedType(name, schema_type) == [name |-> name, schema_type |-> schema_type]

ExpandedField(graphql_name, rust_name, field_type, quals, struct_id, flatten) ==
    [graphql_name |-> graphql_name, rust_name |-> rust_name,
     field_type |-> field_type, field_type_qualifiers |-> quals,
     struct_id |-> struct_id, flatten |-> flatten]

\* An Option is a sequence of at most one element.
None == <<>>
Some(x) == <<x>>

ExpandedVariant(name, variant_type, on) ==
    [name |-> name, variant_type |-> variant_type, on |-> on]

\* A push_type that takes the id after the push.
PushTypeIdAfterPush(ts) == Len(ts) + 1

\* push_type: the id of the pushed type is the length of the list before
\* the push.
PushTypeId(ts) == Len(ts)

RECURSIVE SelectionAt(_, _)
SelectionAt(set, id) ==
    IF Len(id) = 1 THEN set[id[1]]
    ELSE SelectionAt(set[id[1]].sub, Tail(id))

get_selection_ref(id) == SelectionAt(input.selection, id)

\* The ids of the selections of the set under id (of the root set for <<>>).
SelectionIds(id) ==
    LET set == IF id = <<>> THEN input.selection ELSE get_selection_ref(id).sub
    IN  [k \in 1..Len(set) |-> id \o <<k>>]

subselection_ids(id) == SelectionIds(id)

\* The wire name of a field selection: its alias, else its schema name.
WireName(sel) == IF sel.alias # NoAlias THEN sel.alias ELSE sel.field.name

\* field_name: (graphql_name, rust_name) of a field selection.
field_name(sel) ==
    <<WireName(sel), keyword_replace(to_snake_case(WireName(sel)))>>

\* The name of the type of the selection id: the names on the way from the
\* root of the query to the selection.
RECURSIVE PathNames(_, _)
PathNames(set, id) ==
    IF id = <<>> THEN <<>>
    ELSE LET sel == set[Head(id)]
         IN  (CASE sel.kind = "Field" -> WireName(sel)
                [] sel.kind = "InlineFragment" -> N_On \o TypeName(sel.on)
                [] OTHER -> <<>>)
             \o PathNames(sel.sub, Tail(id))

full_path_prefix(id) ==
    (IF input.entry = "operation" THEN N_ResponseData ELSE input.name)
    \o PathNames(input.selection, id)

---------------------------------------------------------------------------
\* The walk.  The recursion of calculate_selection is a stack of frames, the
\* running call last.  A frame holds the call's arguments and its position:
\* in the loop over the variants of an interface or union ("variants"), in
\* the loop over the selection set ("fields"), or between the push_field and
\* the push_type of an object, interface or union field ("push_type").

Frame(selection_set, struct_id, type_ref) ==
    [selection_set |-> selection_set, struct_id |-> struct_id,
     type_ref |-> type_ref,
     phase |-> IF IsAbstract(type_ref) THEN "variants" ELSE "fields",
     variant |-> 1, next |-> 1]

Call(selection_set, struct_id, type_ref) ==
    [selection_set |-> selection_set, struct_id |-> struct_id,
     type_ref |-> type_ref]

top == stack[Len(stack)]

SetTop(f) == [stack EXCEPT ![Len(stack)] = f]

Walking == pc = "walking" /\ stack # <<>>

\* The selection the loop over the selection set is at.
Current == get_selection_ref(top.selection_set[top.next])

InFields == Walking /\ top.phase = "fields" /\ top.next <= Len(top.selection_set)

Advance == SetTop([top EXCEPT !.next = @ + 1])

Panic(msg) ==
    /\ pc' = "panicked"
    /\ panic' = msg
    /\ UNCHANGED <<input, stack, types, fields, variants, calls, items>>

Init ==
    /\ input \in Inputs
    /\ pc = "init"
    /\ stack = <<>>
    /\ types = <<>>
    /\ fields = <<>>
    /\ variants = <<>>
    /\ calls = <<>>
    /\ panic = ""
    /\ items = <<>>

\* The entry points: the root type is pushed and the walk is called on the
\* root selection set.
Enter(name) ==
    LET id == PushTypeId(types)
    IN  /\ types' = Append(types, ExpandedType(name, input.on))
        /\ stack' = <<Frame(SelectionIds(<<>>), id, input.on)>>
        /\ calls' = Append(calls, Call(SelectionIds(<<>>), id, input.on))
        /\ pc' = "walking"
        /\ UNCHANGED <<input, fields, variants, panic, items>>

render_response_data_fields ==
    /\ pc = "init" /\ input.entry = "operation"
    /\ Enter(N_ResponseData)

render_fragment ==
    /\ pc = "init" /\ input.entry = "fragment"
    /\ Enter(input.name)

\* The inline fragments of the selection set that are on the variant.
InlineFragmentsOn(selection_set, variant) ==
    {k \in 1..Len(selection_set) :
        LET sel == get_selection_ref(selection_set[k])
        IN  sel.kind = "InlineFragment" /\ sel.on = variant}

InVariants ==
    /\ Walking /\ top.phase = "variants"
    /\ top.variant <= Len(Variants(top.type_ref))

\* A variant with an inline fragment on it: todo!().
VariantWithFragment ==
    /\ InVariants
    /\ InlineFragmentsOn(top.selection_set, Variants(top.type_ref)[top.variant]) # {}
    /\ Panic("not yet implemented: struct for the variant")

\* A variant without one: an empty variant is pushed.
VariantEmpty ==
    /\ InVariants
    /\ InlineFragmentsOn(top.selection_set, Variants(top.type_ref)[top.variant]) = {}
    /\ variants' = Append(variants,
           ExpandedVariant(TypeName(Variants(top.type_ref)[top.variant]), None,
                           top.struct_id))
    /\ stack' = SetTop([top EXCEPT !.variant = @ + 1])
    /\ UNCHANGED <<input, pc, types, fields, calls, panic, items>>

\* After the loop over the variants: todo!().
VariantsDone ==
    /\ Walking /\ top.phase = "variants"
    /\ top.variant > Len(Variants(top.type_ref))
    /\ Panic("not yet implemented: push the fragments on variants down")

PushField(f) ==
    /\ fields' = Append(fields, f)
    /\ UNCHANGED <<input, pc, types, variants, calls, panic, items>>

FieldEnum ==
    /\ InFields /\ Current.kind = "Field"
    /\ Kind(Current.field.type) = "Enum"
    /\ PushField(ExpandedField(field_name(Current)[1], field_name(Current)[2],
                               TypeName(Current.field.type), Current.field.quals,
                               top.struct_id, FALSE))
    /\ stack' = Advance

\* A scalar field pushed as required whatever the schema field declares.
FieldScalarRequired ==
    /\ pc = "walking" /\ stack # <<>>
    /\ LET cur == stack[Len(stack)]
       IN  /\ cur.phase = "fields" /\ cur.next <= Len(cur.selection_set)
           /\ LET sel == SelectionAt(input.selection, cur.selection_set[cur.next])
              IN  /\ sel.kind = "Field" /\ Kind(sel.field.type) = "Scalar"
                  /\ fields' = Append(fields,
                         ExpandedField(field_name(sel)[1], field_name(sel)[2],
                                       TypeName(sel.field.type), <<"Required">>,
                                       cur.struct_id, FALSE))
           /\ stack' = [stack EXCEPT ![Len(stack)] = [cur EXCEPT !.next = @ + 1]]
    /\ UNCHANGED <<input, pc, types, variants, calls, panic, items>>

FieldScalar ==
    /\ InFields /\ Current.kind = "Field"
    /\ Kind(Current.field.type) = "Scalar"
    /\ PushField(ExpandedField(field_name(Current)[1], field_name(Current)[2],
                               TypeName(Current.field.type), Current.field.quals,
                               top.struct_id, FALSE))
    /\ stack' = Advance

\* An object, interface or union field: the field is pushed first ...
FieldObject ==
    /\ InFields /\ Current.kind = "Field"
    /\ Kind(Current.field.type) \in {"Object", "Interface", "Union"}
    /\ PushField(ExpandedField(field_name(Current)[1], field_name(Current)[2],
                               full_path_prefix(top.selection_set[top.next]),
                               Current.field.quals, top.struct_id, FALSE))
    /\ stack' = SetTop([top EXCEPT !.phase = "push_type"])

\* An object field whose subselection is walked into the struct of the
\* field's owner: no type is pushed for it.
FieldObjectTypeNotPushed ==
    /\ pc = "walking" /\ stack # <<>> /\ stack[Len(stack)].phase = "push_type"
    /\ LET cur == stack[Len(stack)]
           id == cur.selection_set[cur.next]
           sel == SelectionAt(input.selection, id)
       IN  /\ stack' = Append([stack EXCEPT ![Len(stack)] =
                                  [cur EXCEPT !.phase = "fields", !.next = @ + 1]],
                  Frame(subselection_ids(id), cur.struct_id, sel.field.type))
           /\ calls' = Append(calls,
                  Call(subselection_ids(id), cur.struct_id, sel.field.type))
    /\ UNCHANGED <<input, pc, types, fields, variants, panic, items>>

\* ... then its type, and the walk is called on its subselection.
FieldObjectType ==
    /\ Walking /\ top.phase = "push_type"
    /\ LET id == top.selection_set[top.next]
           type_id == PushTypeId(types)
       IN  /\ types' = Append(types,
                  ExpandedType(full_path_prefix(id), Current.field.type))
           /\ stack' = Append(SetTop([top EXCEPT !.phase = "fields", !.next = @ + 1]),
                  Frame(subselection_ids(id), type_id, Current.field.type))
           /\ calls' = Append(calls,
                  Call(subselection_ids(id), type_id, Current.field.type))
    /\ UNCHANGED <<input, pc, fields, variants, panic, items>>

\* A field on an input type: unreachable!().
FieldInput ==
    /\ InFields /\ Current.kind = "Field"
    /\ Kind(Current.field.type) = "Input"
    /\ Panic("unreachable: field selection on input type")

SelectionTypename ==
    /\ InFields /\ Current.kind = "Typename"
    /\ stack' = Advance
    /\ UNCHANGED <<input, pc, types, fields, variants, calls, panic, items>>

SelectionInlineFragment ==
    /\ InFields /\ Current.kind = "InlineFragment"
    /\ stack' = Advance
    /\ UNCHANGED <<input, pc, types, fields, variants, calls, panic, items>>

\* A spread taken as a field whatever type its fragment is on.
SpreadAlwaysField(fragment, type_ref) == TRUE

\* Whether the spread of the fragment is a field of the type walked.
SpreadIsField(fragment, type_ref) == fragment.on = type_ref

FragmentSpreadSkip ==
    /\ InFields /\ Current.kind = "FragmentSpread"
    /\ ~SpreadIsField(Fragment(Current.frag), top.type_ref)
    /\ stack' = Advance
    /\ UNCHANGED <<input, pc, types, fields, variants, calls, panic, items>>

FragmentSpreadField ==
    /\ InFields /\ Current.kind = "FragmentSpread"
    /\ SpreadIsField(Fragment(Current.frag), top.type_ref)
    /\ LET fragment == Fragment(Current.frag)
       IN  PushField(ExpandedField(fragment.name,
                         keyword_replace(to_snake_case(fragment.name)),
                         fragment.name, <<"Required">>, top.struct_id, TRUE))
    /\ stack' = Advance

\* The end of the selection set: the call returns.
Return ==
    /\ Walking /\ top.phase = "fields" /\ top.next > Len(top.selection_set)
    /\ stack' = SubSeq(stack, 1, Len(stack) - 1)
    /\ UNCHANGED <<input, pc, types, fields, variants, calls, panic, items>>

---------------------------------------------------------------------------
\* Rendering.

\* decorate_type: the type name wrapped as the qualifiers say, the first
\* qualifier innermost.
RECURSIVE DecorateFrom(_, _, _)
DecorateFrom(ty, quals, k) ==
    IF k > Len(quals) THEN ty
    ELSE DecorateFrom(
           CASE quals[k] = "Optional" -> [wrap |-> "Option", of |-> ty]
             [] quals[k] = "List" -> [wrap |-> "Vec", of |-> ty]
             [] OTHER -> ty,
           quals, k + 1)

decorate_type(name, quals) == DecorateFrom([wrap |-> "", of |-> name], quals, 1)

\* field_rename_annotation: a rename to the wire name when the generated
\* name differs from it.
field_rename_annotation(graphql_name, rust_name) ==
    IF graphql_name # rust_name THEN Some(graphql_name) ELSE None

RenderField(f) ==
    [ident |-> f.rust_name,
     qualified_type |-> decorate_type(f.field_type, f.field_type_qualifiers),
     rename |-> field_rename_annotation(f.graphql_name, f.rust_name),
     flatten |-> f.flatten]

RenderVariant(v) == [name |-> v.name, variant_type |-> v.variant_type]

\* The fields of every type, taken as the fields of one.
FieldsOfAnyType(fs, type_id) == fs

FieldsOf(fs, type_id) == SelectSeq(fs, LAMBDA f : f.struct_id = type_id)

VariantsOf(vs, type_id) == SelectSeq(vs, LAMBDA v : v.on = type_id)

\* One item of render: the struct of the type with id type_id and, when
\* the type has variants, the `on` member and the enum of the variants.
RenderItem(ts, fs, vs, type_id) ==
    LET ty == ts[type_id + 1]
        own == FieldsOf(fs, type_id)
        arms == VariantsOf(vs, type_id)
        on_variants == [k \in 1..Len(arms) |-> RenderVariant(arms[k])]
        enum_name == ty.name \o N_On
    IN  [struct_name |-> ty.name,
         fields |-> [k \in 1..Len(own) |-> RenderField(own[k])],
         on_field |-> IF Len(on_variants) > 0 THEN Some(enum_name) ELSE None,
         on_enum |-> IF Len(on_variants) > 0
                     THEN Some([name |-> enum_name, variants |-> on_variants])
                     ELSE None]

RenderItems(ts, fs, vs) ==
    [k \in 1..Len(ts) |-> RenderItem(ts, fs, vs, k - 1)]

\* The walk has returned to the entry point, which renders the lists.
Render ==
    /\ pc = "walking" /\ stack = <<>>
    /\ items' = RenderItems(types, fields, variants)
    /\ pc' = "done"
    /\ UNCHANGED <<input, stack, types, fields, variants, calls, panic>>

Next ==
    \/ render_response_data_fields
    \/ render_fragment
    \/ VariantWithFragment
    \/ VariantEmpty
    \/ VariantsDone
    \/ FieldEnum
    \/ FieldScalar
    \/ FieldObject
    \/ FieldObjectType
    \/ FieldInput
    \/ SelectionTypename
    \/ SelectionInlineFragment
    \/ FragmentSpreadSkip
    \/ FragmentSpreadField
    \/ Return
    \/ Render

Spec == Init /\ [][Next]_vars

\* The walk is one synchronous call: a step that can be taken is taken.
FairSpec == Spec /\ WF_vars(Next)

---------------------------------------------------------------------------
\* render on its own: the lists are drawn from bounded sets and rendered.

SeqsUpTo(S, n) == UNION {[1..k -> S] : k \in 0..n}

TypeLists ==
    {[k \in 1..n |-> ExpandedType(<<"T", LowerChars[k]>>, "User")] : n \in 1..MaxTypes}

FieldLists(n) ==
    SeqsUpTo({ExpandedField(nm, keyword_replace(to_snake_case(nm)), N_ID,
                            <<"Required">>, id, FALSE) :
                 nm \in {N_id, N_type}, id \in 0..(n - 1)},
             MaxFields)

VariantLists(n) ==
    SeqsUpTo({ExpandedVariant(N_Cat, vt, id) :
                 vt \in {None, Some(<<"T", "c">>)}, id \in 0..(n - 1)},
             MaxVariants)

RenderInit ==
    /\ input = [entry |-> "operation", name |-> N_ResponseData, on |-> "Query",
                selection |-> <<TypenameSel>>]
    /\ pc = "walking"
    /\ stack = <<>>
    /\ types \in TypeLists
    /\ fields \in FieldLists(Len(types))
    /\ variants \in VariantLists(Len(types))
    /\ calls = <<>>
    /\ panic = ""
    /\ items = <<>>

RenderNext == Render

RenderSpec == RenderInit /\ [][RenderNext]_vars

---------------------------------------------------------------------------
\* Properties.

Finished == pc \in {"done", "panicked"}

TypeIdsNow == 0..(Len(types) - 1)

Returned(c) == \A k \in 1..Len(stack) : stack[k].struct_id # c.struct_id

VariantsOn(id) == {k \in 1..Len(variants) : variants[k].on = id}

\* C1: a walk on an interface or union with M members does not abort, and
\* once it has returned the type walked owns exactly M + 1 variants.
C1_Exhaustive ==
    \A k \in 1..Len(calls) :
        LET c == calls[k]
        IN  IsAbstract(c.type_ref) =>
              /\ ~(pc = "panicked" /\ top.struct_id = c.struct_id)
              /\ (Returned(c) =>
                    Cardinality(VariantsOn(c.struct_id))
                      = Len(Variants(c.type_ref)) + 1)

\* C2: no run of an entry point ends in a panic.
C2_NoAbort == pc # "panicked"

\* A chain of nested object fields: every selection set holds scalar and
\* enum fields, typename markers and at most one object field, whose
\* subselection is such a chain.
RECURSIVE IsChain(_)
IsChain(set) ==
    /\ \A k \in 1..Len(set) :
          \/ set[k].kind = "Typename"
          \/ /\ set[k].kind = "Field"
             /\ \/ Kind(set[k].field.type) \in {"Scalar", "Enum"}
                \/ Kind(set[k].field.type) = "Object" /\ IsChain(set[k].sub)
    /\ Cardinality({k \in 1..Len(set) : set[k].sub # <<>>}) <= 1

RECURSIVE ChainLength(_)
ChainLength(set) ==
    IF \E k \in 1..Len(set) : set[k].sub # <<>>
    THEN 1 + ChainLength(set[CHOOSE k \in 1..Len(set) : set[k].sub # <<>>].sub)
    ELSE 0

ChainInput == Kind(input.on) = "Object" /\ IsChain(input.selection)

\* C3: every run ends, and the run on a chain of N nested object fields
\* ends without a panic and with exactly N + 1 types.
C3_TerminatesWithChainTypes ==
    /\ <>Finished
    /\ [](ChainInput =>
            /\ pc # "panicked"
            /\ (pc = "done" => Len(types) = ChainLength(input.selection) + 1))

C3_Witness ==
    /\ pc = "done" /\ ChainInput
    /\ ChainLength(input.selection) = 2 /\ Len(types) = 3

\* C4: in every state every field's struct_id and every variant's `on` is
\* the id of a type already in the list.
C4_ReferentialIntegrity ==
    /\ \A k \in 1..Len(fields) : fields[k].struct_id \in TypeIdsNow
    /\ \A k \in 1..Len(variants) : variants[k].on \in TypeIdsNow

C4_Witness ==
    /\ \E k \in 1..Len(fields) : fields[k].struct_id = 0
    /\ \E k \in 1..Len(variants) : variants[k].on = 1
    /\ Len(types) = 2

\* C5: after a completed build no two fields of one struct have the same
\* generated name.
C5_UniqueNames ==
    pc = "done" =>
       \A j, k \in 1..Len(fields) :
          (j # k /\ fields[j].struct_id = fields[k].struct_id)
             => fields[j].rust_name # fields[k].rust_name

\* The spreads of fragment f in a call's selection set, those at a call on
\* the type the fragment is on (same) or those at a call on another type.
SpreadsOf(c, f, same) ==
    {k \in 1..Len(c.selection_set) :
        LET sel == get_selection_ref(c.selection_set[k])
        IN  /\ sel.kind = "FragmentSpread" /\ sel.frag = f
            /\ (Fragment(f).on = c.type_ref) = same}

EmbedFields(f) ==
    {k \in 1..Len(fields) :
        fields[k].flatten /\ fields[k].field_type = Fragment(f).name}

RECURSIVE SumOver(_, _)
SumOver(g, n) == IF n = 0 THEN 0 ELSE g[n] + SumOver(g, n - 1)

\* C6: the step on a fragment spread adds, when the fragment is on the type
\* walked, exactly one field on the owner with flatten, the fragment's name
\* as type and the qualifiers [Required], and otherwise no field; it adds
\* no type and no variant.  So a completed build holds, for every fragment,
\* one embed field per spread of it at a call on the fragment's type, and
\* no field for its other spreads.
C6_FragmentSpread ==
    /\ [][(InFields /\ Current.kind = "FragmentSpread") =>
            /\ types' = types
            /\ variants' = variants
            /\ IF Fragment(Current.frag).on = top.type_ref
               THEN /\ Len(fields') = Len(fields) + 1
                    /\ SubSeq(fields', 1, Len(fields)) = fields
                    /\ LET f == fields'[Len(fields')]
                       IN  /\ f.flatten
                           /\ f.field_type = Fragment(Current.frag).name
                           /\ f.field_type_qualifiers = <<"Required">>
                           /\ f.struct_id = top.struct_id
               ELSE fields' = fields]_vars
    /\ [](pc = "done" =>
            \A f \in FragmentIds :
               Cardinality(EmbedFields(f))
                 = SumOver([k \in 1..Len(calls) |->
                              Cardinality(SpreadsOf(calls[k], f, TRUE))], Len(calls)))

\* Two spreads of one fragment at a call on the fragment's type.
C6_Witness ==
    /\ pc = "done"
    /\ \E k \in 1..Len(calls), f \in FragmentIds :
          /\ Cardinality(SpreadsOf(calls[k], f, TRUE)) = 2
          /\ Cardinality(EmbedFields(f)) = 2
          /\ Len(types) = 2

\* C7: after a completed build, every plain field selected inside an inline
\* fragment of a selection set walked on an object type is a field of the
\* struct of that walk.
C7_InlineFragmentInlined ==
    pc = "done" =>
       \A k \in 1..Len(calls) :
          Kind(calls[k].type_ref) = "Object" =>
             \A j \in 1..Len(calls[k].selection_set) :
                LET sel == get_selection_ref(calls[k].selection_set[j])
                IN  sel.kind = "InlineFragment" =>
                       \A n \in 1..Len(sel.sub) :
                          sel.sub[n].kind = "Field" =>
                             \E m \in 1..Len(fields) :
                                /\ fields[m].struct_id = calls[k].struct_id
                                /\ fields[m].graphql_name = WireName(sel.sub[n])

\* C8: when a build has ended, every member of an interface or union walked
\* has exactly one variant on the owner, named after the member, with a
\* payload type exactly when the selection set has an inline fragment on
\* the member.
C8_PerMemberVariants ==
    Finished =>
       \A k \in 1..Len(calls) :
          IsAbstract(calls[k].type_ref) =>
             \A m \in 1..Len(Variants(calls[k].type_ref)) :
                LET member == Variants(calls[k].type_ref)[m]
                    own == {v \in VariantsOn(calls[k].struct_id) :
                               variants[v].name = TypeName(member)}
                IN  /\ Cardinality(own) = 1
                    /\ \A v \in own :
                          (variants[v].variant_type # None)
                            <=> (InlineFragmentsOn(calls[k].selection_set, member) # {})

LeafField(sel) ==
    sel.kind = "Field" /\ Kind(sel.field.type) \in {"Scalar", "Enum"}

\* C9: the step on a field of enum or scalar type adds exactly one field on
\* the owner, with the schema name of the enum or scalar as type, the
\* schema field's qualifiers and no flatten, and adds no type and no
\* variant.  So a selection of such fields only yields one type, one field
\* per selection and no variant.
C9_LeafFields ==
    /\ [][(InFields /\ LeafField(Current)) =>
            /\ types' = types
            /\ variants' = variants
            /\ Len(fields') = Len(fields) + 1
            /\ SubSeq(fields', 1, Len(fields)) = fields
            /\ LET f == fields'[Len(fields')]
               IN  /\ f.field_type = TypeName(Current.field.type)
                   /\ f.field_type_qualifiers = Current.field.quals
                   /\ ~f.flatten
                   /\ f.struct_id = top.struct_id]_vars
    /\ []((pc = "done" /\ Kind(input.on) = "Object"
             /\ \A k \in 1..Len(input.selection) : LeafField(input.selection[k])) =>
            /\ Len(types) = 1
            /\ Len(fields) = Len(input.selection)
            /\ variants = <<>>)

C9_Witness ==
    /\ pc = "done"
    /\ input.on = "User"
    /\ input.selection = <<FieldSel(NoAlias, SchemaField(N_id, "ID", <<"Required">>), <<>>),
                           FieldSel(NoAlias, SchemaField(N_name, "String", <<"Optional">>), <<>>)>>
    /\ Len(types) = 1 /\ Len(fields) = 2 /\ variants = <<>>

\* The positions in a list owned by a type id, and the n-th of them.
OwnedFields(id) == {k \in 1..Len(fields) : fields[k].struct_id = id}

Nth(S, n) == CHOOSE k \in S : Cardinality({j \in S : j < k}) = n - 1

\* C10: render gives one item per type, in the order of the type ids; the
\* item's members are the fields of the type in insertion order, with an
\* `on` member after them exactly when the type has variants; and the item
\* has an enum, with one arm per variant of the type in insertion order,
\* exactly when the type has variants.
C10_EmissionOrder ==
    pc = "done" =>
       /\ Len(items) = Len(types)
       /\ \A t \in 1..Len(types) :
             LET item == items[t]
                 fs == OwnedFields(t - 1)
                 vs == VariantsOn(t - 1)
             IN  /\ item.struct_name = types[t].name
                 /\ Len(item.fields) = Cardinality(fs)
                 /\ \A n \in 1..Len(item.fields) :
                       /\ item.fields[n].ident = fields[Nth(fs, n)].rust_name
                       /\ item.fields[n].flatten = fields[Nth(fs, n)].flatten
                 /\ (item.on_field # None) <=> (vs # {})
                 /\ (item.on_enum # None) <=> (vs # {})
                 /\ item.on_enum # None =>
                       /\ Len(item.on_enum[1].variants) = Cardinality(vs)
                       /\ \A n \in 1..Cardinality(vs) :
                             /\ item.on_enum[1].variants[n].name
                                  = variants[Nth(vs, n)].name
                             /\ item.on_enum[1].variants[n].variant_type
                                  = variants[Nth(vs, n)].variant_type

C10_Witness ==
    /\ pc = "done"
    /\ Len(types) = 2
    /\ Cardinality(OwnedFields(0)) = 2
    /\ fields[1].rust_name # fields[2].rust_name
    /\ Cardinality(VariantsOn(0)) = 2
    /\ variants[1].variant_type # variants[2].variant_type
    /\ VariantsOn(1) = {}
    /\ items[2].on_enum = None /\ items[1].on_enum # None
====
